---------------------------- MODULE Spec2Model ----------------------------
(***************************************************************************)
(* Model of audio_processor.py: a linear pipeline                          *)
(*   load_audio -> resample_audio -> get_output_filenames -> save_audio    *)
(*   -> generate_waveform_gif -> print -> display_audio                    *)
(* wrapped by main() in one try/except.                                    *)
(*                                                                         *)
(* Representation choices                                                  *)
(*  - a path is a sequence of one-character strings;                       *)
(*  - a float32 amplitude v is Val(q), q = v * Unit, Unit = 2^15 * Sub     *)
(*    (fixed point with Sub steps below one 16-bit LSB); every value used  *)
(*    is exactly representable in float32, so the arithmetic is exact;     *)
(*    a sample whose value only the resampling library determines is       *)
(*    Unknown, and so is the integer it is cast to;                        *)
(*  - an exception is a record [type, mro, stage, line], mro the classes   *)
(*    it is an instance of; NoExc means "none";                            *)
(*  - env is the world outside the script, fixed when the run starts:      *)
(*    whether file_path exists, whether the decoder accepts it, the        *)
(*    decoded container, which library calls fail and with which class    *)
(*    of exception (an interrupt delivered during the call included).      *)
(***************************************************************************)
EXTENDS Integers, Sequences, FiniteSets

VARIABLES pc, env, file_path, target_sr, samples, sample_rate,
          original_audio, audio_output_path, gif_output_path,
          console, raised, caught, calls, disk, anim, handed

vars == <<pc, env, file_path, target_sr, samples, sample_rate,
          original_audio, audio_output_path, gif_output_path,
          console, raised, caught, calls, disk, anim, handed>>

-----------------------------------------------------------------------------
(* Bounds of the model *)

MaxFrames == 2
MaxLen == 3
MaxTail == 5
MaxGifLen == 6
SubBits == 1

(* Program constants *)

DefaultTargetSr == 22050
Scale == 32768
GifFrames == 100
DurationNum == 5
Int16Min == -32768
Int16Max == 32767
Int16Mod == 65536

(* steps below one 16-bit LSB that the fixed-point amplitudes resolve *)
Sub == 2 ^ SubBits

Unit == Scale * Sub

-----------------------------------------------------------------------------
(* Small helpers *)

MinOf(a, b) == IF a <= b THEN a ELSE b

MaxOf(a, b) == IF a >= b THEN a ELSE b

Abs(a) == IF a >= 0 THEN a ELSE -a

CeilDiv(a, b) == (a + b - 1) \div b

(* int(x) and astype's truncation: round toward zero *)
TruncDiv(a, b) == IF a >= 0 THEN a \div b ELSE -((-a) \div b)

SeqsUpTo(S, n) == UNION {[1..k -> S] : k \in 0..n}

(* Python's s.rfind(c), 1-based; 0 stands for "not found" (-1) *)
rfind(s, c) ==
    IF \E i \in 1..Len(s) : s[i] = c
    THEN CHOOSE i \in 1..Len(s) : s[i] = c /\ \A j \in (i+1)..Len(s) : s[j] # c
    ELSE 0

(* Python's s[lo:hi] for 0 <= lo, 0 <= hi, 0-based half-open *)
Slice(s, lo, hi) == SubSeq(s, MinOf(lo, Len(s)) + 1, MinOf(hi, Len(s)))

-----------------------------------------------------------------------------
(* Paths *)

Str_sample_data_slash == <<"s","a","m","p","l","e","_","d","a","t","a","/">>

Str_v2 == <<"v","2","_">>

Str_dot_gif == <<".","g","i","f">>

Str_dot_mov == <<".","m","o","v">>

MainFilePath == Str_sample_data_slash \o <<"m","m","m","m">> \o Str_dot_mov

(* os.path.basename (posixpath) *)
basename(p) == SubSeq(p, rfind(p, "/") + 1, Len(p))

(* os.path.splitext (genericpath._splitext): <<root, ext>> *)
splitext(p) ==
    LET sepIndex == rfind(p, "/")
        dotIndex == rfind(p, ".")
    IN  IF /\ dotIndex > sepIndex
           /\ \E k \in (sepIndex + 1)..(dotIndex - 1) : p[k] # "."
        THEN <<SubSeq(p, 1, dotIndex - 1), SubSeq(p, dotIndex, Len(p))>>
        ELSE <<p, <<>>>>

(* faulty variant: the stem is taken from the whole path, not from its basename *)
get_output_filenames_keepdir(input_path) ==
    LET filename == splitext(input_path)[1]
        audio_output == Str_sample_data_slash \o Str_v2 \o filename
                            \o splitext(input_path)[2]
        gif_output == Str_sample_data_slash \o Str_v2 \o filename \o Str_dot_gif
    IN  <<audio_output, gif_output>>

(* faulty variant: the "v2_" tag is dropped *)
get_output_filenames_notag(input_path) ==
    LET filename == splitext(basename(input_path))[1]
        audio_output == Str_sample_data_slash \o filename
                            \o splitext(input_path)[2]
        gif_output == Str_sample_data_slash \o filename \o Str_dot_gif
    IN  <<audio_output, gif_output>>

(* get_output_filenames: <<audio_output, gif_output>> *)
get_output_filenames(input_path) ==
    LET filename == splitext(basename(input_path))[1]
        audio_output == Str_sample_data_slash \o Str_v2 \o filename
                            \o splitext(input_path)[2]
        gif_output == Str_sample_data_slash \o Str_v2 \o filename \o Str_dot_gif
    IN  <<audio_output, gif_output>>

-----------------------------------------------------------------------------
(* Exceptions *)

(* class, base class of the exception classes named in this model *)
ClassBases == {<<"BaseException", "object">>,
               <<"Exception", "BaseException">>,
               <<"KeyboardInterrupt", "BaseException">>,
               <<"SystemExit", "BaseException">>,
               <<"GeneratorExit", "BaseException">>,
               <<"BaseExceptionGroup", "BaseException">>,
               <<"CancelledError", "BaseException">>,
               <<"OSError", "Exception">>,
               <<"FileNotFoundError", "OSError">>,
               <<"ValueError", "Exception">>,
               <<"AttributeError", "Exception">>,
               <<"ArithmeticError", "Exception">>,
               <<"ZeroDivisionError", "ArithmeticError">>}

Parent(c) == (CHOOSE b \in ClassBases : b[1] = c)[2]

(* the class and its ancestors up to BaseException *)
RECURSIVE Mro(_)
Mro(c) == IF c = "object" THEN {} ELSE {c} \cup Mro(Parent(c))

NoExc == [type |-> "None", mro |-> {}, stage |-> "none", line |-> 0]

Exc(t, st, ln) == [type |-> t, mro |-> Mro(t), stage |-> st, line |-> ln]

(* isinstance(e, Exception), the test of "except Exception" *)
IsException(e) == "Exception" \in e.mro

(* the exception classes a library call ends with when it does not return:
   an I/O failure, a missing attribute, a failed computation, or
   KeyboardInterrupt when the user interrupts the process during the call *)
LibErrorTypes == {"OSError", "AttributeError", "ZeroDivisionError",
                  "KeyboardInterrupt"}

-----------------------------------------------------------------------------
(* The decoded container (pydub.AudioSegment) *)

(* the value of getattr(obj, "format", ...) for an object that has no such
   attribute: a pydub.AudioSegment carries sample_width, frame_rate,
   frame_width, channels and its data, and no format *)
NoAttr == "<no attribute>"

NoAudio == [channels |-> 0, frame_rate |-> 0, data |-> <<>>, format |-> NoAttr]

(* audio.get_array_of_samples(): the interleaved 16-bit samples *)
get_array_of_samples(audio) == audio.data

(* number of frames of a container: one frame holds one sample per channel *)
frame_count(audio) == Len(audio.data) \div audio.channels

(* audio.set_channels(1) on a stereo segment: audioop.tomono with factors
   0.5, 0.5, i.e. floor((L + R) / 2) per frame *)
set_channels_mono(audio) ==
    [audio EXCEPT !.channels = 1,
                  !.data = [i \in 1..(Len(audio.data) \div 2) |->
                               (audio.data[2*i - 1] + audio.data[2*i]) \div 2]]

(* a number the program has computed, and one only the library determines *)
Val(q) == [known |-> TRUE, q |-> q]

Unknown == [known |-> FALSE, q |-> 0]

(* np.array(..., dtype=np.float32) / (2**15): int16 n becomes n / 2^15,
   which is n * Sub in units of 1 / Unit *)
normalize(ints) == [i \in 1..Len(ints) |-> Val(ints[i] * Sub)]

(* the success path of load_audio, lines 31-41:
   <<samples, sample_rate, audio>> *)
load_decoded(decoded) ==
    LET audio == IF decoded.channels = 2 THEN set_channels_mono(decoded)
                 ELSE decoded
    IN  <<normalize(get_array_of_samples(audio)), audio.frame_rate, audio>>

(* faulty variant: the existence test sits inside the try block, so the decoder is
   tried first and its failure is wrapped *)
load_audio_in_try(e) ==
    IF ~e.exists \/ (~e.decodable /\ IsException(Exc(e.errtype, "load", 31)))
    THEN <<"raise", Exc("ValueError", "load", 43), 1>>
    ELSE IF ~e.decodable
         THEN <<"raise", Exc(e.errtype, "load", 31), 1>>
         ELSE <<"return", load_decoded(e.audio), 1>>

(* load_audio(file_path) in environment e: either <<"raise", exception,
   decode attempts>> or <<"return", result, decode attempts>>.  What
   AudioSegment.from_file raises at line 31 is wrapped in ValueError by
   "except Exception" (lines 42-43) when it is an Exception and leaves
   load_audio as it is otherwise *)
load_audio(e) ==
    IF ~e.exists
    THEN <<"raise", Exc("FileNotFoundError", "load", 27), 0>>
    ELSE IF ~e.decodable
         THEN LET x == Exc(e.errtype, "load", 31)
              IN  IF IsException(x)
                  THEN <<"raise", Exc("ValueError", "load", 43), 1>>
                  ELSE <<"raise", x, 1>>
         ELSE <<"return", load_decoded(e.audio), 1>>

-----------------------------------------------------------------------------
(* Resampler *)

RECURSIVE gcd(_, _)
gcd(a, b) == IF b = 0 THEN a ELSE gcd(b, a % b)

IsPow2(x) == \E k \in 0..30 : 2 ^ k = x

(* n_samples = int(np.ceil(n * ratio)) with ratio = float(target_sr) /
   orig_sr, in double precision.  When n * target_sr / orig_sr is not an
   integer the result is its ceiling.  When it is an integer k and the
   ratio is not a binary fraction, the rounded product may land on k or
   just above it, giving k or k + 1. *)
resample_lengths(n, orig_sr, tgt) ==
    LET k == CeilDiv(n * tgt, orig_sr)
    IN  IF n > 0 /\ (n * tgt) % orig_sr = 0
             /\ ~IsPow2(orig_sr \div gcd(orig_sr, tgt))
        THEN {k, k + 1}
        ELSE {k}

(* librosa.resample(y, orig_sr=, target_sr=): the set of possible results.
   The length is the program's contract; the filtered values are the
   library's and are left undetermined. *)
librosa_resample(y, orig_sr, tgt) ==
    {[i \in 1..m |-> Unknown] : m \in resample_lengths(Len(y), orig_sr, tgt)}

(* faulty variant: the converted buffer is returned with the source rate *)
resample_audio_stale_rate(y, orig_sr, tgt) ==
    IF orig_sr # tgt
    THEN {<<b, orig_sr>> : b \in librosa_resample(y, orig_sr, tgt)}
    ELSE {<<y, orig_sr>>}

(* resample_audio: the set of possible results <<samples, rate>> *)
resample_audio(y, orig_sr, tgt) ==
    IF orig_sr # tgt
    THEN {<<b, tgt>> : b \in librosa_resample(y, orig_sr, tgt)}
    ELSE {<<y, orig_sr>>}

-----------------------------------------------------------------------------
(* Writer *)

(* the 16-bit wrap of an integer *)
wrap16(x) == ((x - Int16Min) % Int16Mod) + Int16Min

(* what the float -> int16 cast of a build does with a value that does not
   fit: the C cast is undefined there, and builds keep the low 16 bits or
   saturate *)
CastModes == {"wrap", "saturate"}

(* float32 -> int16 of astype(np.int16) for the float v.q / Sub: truncation
   toward zero when the result fits *)
astype_int16(v, mode) ==
    LET t == TruncDiv(v.q, Sub)
    IN  IF ~v.known THEN Unknown
        ELSE IF t >= Int16Min /\ t <= Int16Max THEN Val(t)
        ELSE IF mode = "wrap" THEN Val(wrap16(t))
        ELSE IF t > Int16Max THEN Val(Int16Max) ELSE Val(Int16Min)

(* (samples * (2**15)).astype(np.int16): the set of possible int16 arrays.
   sample q / Unit times 2^15 is q / Sub *)
denormalize(buf) ==
    {[i \in 1..Len(buf) |-> astype_int16(buf[i], mode)] : mode \in CastModes}

-----------------------------------------------------------------------------
(* Visualizer *)

(* samples_per_frame = int(sample_rate * (duration / frames)) with
   duration 5.0 and 100 frames; for a positive integer rate the float
   product truncates to floor(rate * 5 / 100) *)
samples_per_frame(rate) == (rate * DurationNum) \div GifFrames

(* update(frame): <<start_idx, end_idx>> *)
update(frame, spf, n) == <<frame * spf, MinOf((frame + 1) * spf, n)>>

(* the f-string "{len(samples)/sample_rate:.2f}" in hundredths of a second
   (round to nearest; the rates the script prints with never hit a tie) *)
duration_hundredths(n, rate) == (2 * 100 * n + rate) \div (2 * rate)

-----------------------------------------------------------------------------
(* State of a run *)

Stages == {"load", "decode", "resample", "names", "save", "render",
           "display", "handler"}

Faults == {"resample", "export", "anim_save", "display"}

NoArgs == [samples |-> <<>>, rate |-> 0]

(* the AudioSegment save_audio builds at lines 76-81 *)
NoSegment == [data |-> <<>>, frame_rate |-> 0, sample_width |-> 0,
              channels |-> 0]

Segment(d, r) == [data |-> d, frame_rate |-> r, sample_width |-> 2,
                  channels |-> 1]

(* updates: calls of update so far; frame: the argument of the last call;
   grabbed: frames handed to the writer *)
NoAnim == [spf |-> 0, updates |-> 0, frame |-> 0, grabbed |-> 0,
           start_idx |-> 0, end_idx |-> 0, slice |-> <<>>]

Line(k, r, h, p, e) == [kind |-> k, rate |-> r, hundredths |-> h, path |-> p,
                        exc |-> e]

File(p, k, d, r, f, n) == [path |-> p, kind |-> k, data |-> d,
                           frame_rate |-> r, format |-> f, frames |-> n]

Called(st) == [calls EXCEPT ![st] = @ + 1]

(* raise e inside main's try block *)
Raise(e) == /\ raised' = e
            /\ pc' = "except"

-----------------------------------------------------------------------------
(* Steps of main() *)

(* process_audio, line 138: load_audio(file_path) *)
LoadAudio ==
    /\ pc = "load"
    /\ LET r == load_audio(env)
       IN  /\ calls' = [calls EXCEPT !["load"] = @ + 1, !["decode"] = @ + r[3]]
           /\ IF r[1] = "raise"
              THEN /\ Raise(r[2])
                   /\ UNCHANGED <<samples, sample_rate, original_audio>>
              ELSE /\ samples' = r[2][1]
                   /\ sample_rate' = r[2][2]
                   /\ original_audio' = r[2][3]
                   /\ pc' = "resample"
                   /\ UNCHANGED raised
    /\ UNCHANGED <<env, file_path, target_sr, audio_output_path,
                   gif_output_path, console, caught, disk, anim, handed>>

(* process_audio, lines 141-143: resample_audio(samples, sample_rate,
   target_sr); the library call may fail *)
ResampleAudio ==
    /\ pc = "resample"
    /\ calls' = Called("resample")
    /\ handed' = [handed EXCEPT !.resample = [samples |-> samples, rate |-> sample_rate]]
    /\ IF sample_rate # target_sr /\ "resample" \in env.faults
       THEN /\ Raise(Exc(env.errtype, "resample", 58))
            /\ UNCHANGED <<samples, sample_rate>>
       ELSE \E r \in resample_audio(samples, sample_rate, target_sr) :
                /\ samples' = r[1]
                /\ sample_rate' = r[2]
                /\ pc' = "names"
                /\ UNCHANGED raised
    /\ UNCHANGED <<env, file_path, target_sr, original_audio,
                   audio_output_path, gif_output_path, console, caught, disk,
                   anim>>

(* faulty variant: main announces the load as soon as process_audio has
   returned, ahead of the stages that can still fail *)
GetOutputFilenames_announce ==
    /\ pc = "names"
    /\ calls' = Called("names")
    /\ console' = Append(console,
          Line("loaded", sample_rate,
               duration_hundredths(Len(samples), sample_rate), <<>>, NoExc))
    /\ LET r == get_output_filenames(file_path)
       IN  /\ audio_output_path' = r[1]
           /\ gif_output_path' = r[2]
    /\ pc' = "save"
    /\ UNCHANGED <<env, file_path, target_sr, samples, sample_rate,
                   original_audio, raised, caught, disk, anim, handed>>

(* main, line 172 *)
GetOutputFilenames ==
    /\ pc = "names"
    /\ calls' = Called("names")
    /\ LET r == get_output_filenames(file_path)
       IN  /\ audio_output_path' = r[1]
           /\ gif_output_path' = r[2]
    /\ pc' = "save"
    /\ UNCHANGED <<env, file_path, target_sr, samples, sample_rate,
                   original_audio, console, raised, caught, disk, anim, handed>>

(* main, line 175: save_audio(samples, sample_rate, audio_output_path,
   original_audio).  Lines 73-81 build the 16-bit segment; line 84 reads
   original_audio.format before export is called, so an object without
   that attribute ends the call with AttributeError and nothing is written;
   otherwise export writes the file or fails *)
SaveAudio ==
    /\ pc = "save"
    /\ calls' = Called("save")
    /\ \E samples_int16 \in denormalize(samples) :
          /\ handed' = [handed EXCEPT
                           !.save = [samples |-> samples, rate |-> sample_rate],
                           !.segment = Segment(samples_int16, sample_rate)]
          /\ IF original_audio.format = NoAttr
             THEN /\ Raise(Exc("AttributeError", "save", 84))
                  /\ UNCHANGED disk
             ELSE IF "export" \in env.faults
                  THEN /\ Raise(Exc(env.errtype, "save", 84))
                       /\ UNCHANGED disk
                  ELSE /\ disk' = Append(disk, File(audio_output_path, "audio",
                                                    samples_int16, sample_rate,
                                                    original_audio.format, 0))
                       /\ pc' = "render"
                       /\ UNCHANGED raised
    /\ UNCHANGED <<env, file_path, target_sr, samples, sample_rate,
                   original_audio, audio_output_path, gif_output_path,
                   console, caught, anim>>

(* generate_waveform_gif, lines 97-120: np.min / np.max of an empty array
   raise ValueError; creating the FuncAnimation draws nothing *)
GifSetup ==
    /\ pc = "render"
    /\ calls' = Called("render")
    /\ handed' = [handed EXCEPT !.render = [samples |-> samples, rate |-> sample_rate]]
    /\ IF Len(samples) = 0
       THEN /\ Raise(Exc("ValueError", "render", 103))
            /\ UNCHANGED anim
       ELSE /\ anim' = [NoAnim EXCEPT !.spf = samples_per_frame(sample_rate)]
            /\ pc' = "frames"
            /\ UNCHANGED raised
    /\ UNCHANGED <<env, file_path, target_sr, samples, sample_rate,
                   original_audio, audio_output_path, gif_output_path,
                   console, caught, disk>>

(* generate_waveform_gif, lines 113-117 and 123: anim.save drives update.
   It first draws the animation's first frame, update(0), without handing
   it to the writer, then calls update(frame) for frame = 0 .. frames - 1
   and hands each drawn frame to the writer *)
GifFrame ==
    /\ pc = "frames"
    /\ anim.updates < GifFrames + 1
    /\ LET frame == IF anim.updates = 0 THEN 0 ELSE anim.updates - 1
           r == update(frame, anim.spf, Len(samples))
       IN  anim' = [anim EXCEPT !.updates = @ + 1,
                                !.frame = frame,
                                !.grabbed = IF anim.updates = 0 THEN @ ELSE @ + 1,
                                !.start_idx = r[1],
                                !.end_idx = r[2],
                                !.slice = Slice(samples, r[1], r[2])]
    /\ UNCHANGED <<pc, env, file_path, target_sr, samples, sample_rate,
                   original_audio, audio_output_path, gif_output_path,
                   console, raised, caught, calls, disk, handed>>

(* generate_waveform_gif, line 123: anim.save does not return; the writer
   can fail before the first frame, between two frames, or when it writes
   the file after the last one *)
GifSaveFail ==
    /\ pc = "frames"
    /\ "anim_save" \in env.faults
    /\ Raise(Exc(env.errtype, "render", 123))
    /\ UNCHANGED <<env, file_path, target_sr, samples, sample_rate,
                   original_audio, audio_output_path, gif_output_path,
                   console, caught, calls, disk, anim, handed>>

(* generate_waveform_gif, lines 123-124: all frames are drawn and the
   writer writes the file *)
GifSave ==
    /\ pc = "frames"
    /\ anim.updates = GifFrames + 1
    /\ "anim_save" \notin env.faults
    /\ disk' = Append(disk, File(gif_output_path, "gif", <<>>, 0, "gif",
                                 anim.grabbed))
    /\ pc' = "print"
    /\ UNCHANGED <<env, file_path, target_sr, samples, sample_rate,
                   original_audio, audio_output_path, gif_output_path,
                   console, raised, caught, calls, anim, handed>>

(* main, lines 181-183 *)
PrintStatus ==
    /\ pc = "print"
    /\ console' = console \o
          << Line("loaded", sample_rate,
                  duration_hundredths(Len(samples), sample_rate), <<>>, NoExc),
             Line("audio_saved", 0, 0, audio_output_path, NoExc),
             Line("gif_saved", 0, 0, gif_output_path, NoExc) >>
    /\ pc' = "display"
    /\ UNCHANGED <<env, file_path, target_sr, samples, sample_rate,
                   original_audio, audio_output_path, gif_output_path,
                   raised, caught, calls, disk, anim, handed>>

(* main, line 186: display_audio(samples, sample_rate).  Run as a script,
   IPython's display writes the object's text form to the console. *)
DisplayAudio ==
    /\ pc = "display"
    /\ calls' = Called("display")
    /\ IF "display" \in env.faults
       THEN /\ Raise(Exc(env.errtype, "display", 199))
            /\ UNCHANGED console
       ELSE /\ console' = Append(console, Line("audio_object", 0, 0, <<>>, NoExc))
            /\ pc' = "done"
            /\ UNCHANGED raised
    /\ UNCHANGED <<env, file_path, target_sr, samples, sample_rate,
                   original_audio, audio_output_path, gif_output_path,
                   caught, disk, anim, handed>>

(* faulty variant: the handler logs the error and runs the pipeline again *)
MainExcept_retry ==
    /\ pc = "except"
    /\ calls' = Called("handler")
    /\ caught' = Append(caught, raised)
    /\ console' = Append(console, Line("error", 0, 0, <<>>, raised))
    /\ pc' = "load"
    /\ UNCHANGED <<env, file_path, target_sr, samples, sample_rate,
                   original_audio, audio_output_path, gif_output_path,
                   raised, disk, anim, handed>>

(* main, lines 188-189: except Exception as e: print(...) *)
MainExcept ==
    /\ pc = "except"
    /\ calls' = Called("handler")
    /\ IF IsException(raised)
       THEN /\ caught' = Append(caught, raised)
            /\ console' = Append(console, Line("error", 0, 0, <<>>, raised))
            /\ pc' = "done"
       ELSE /\ pc' = "uncaught"
            /\ UNCHANGED <<caught, console>>
    /\ UNCHANGED <<env, file_path, target_sr, samples, sample_rate,
                   original_audio, audio_output_path, gif_output_path,
                   raised, disk, anim, handed>>

-----------------------------------------------------------------------------
(* Inputs *)

Rates == {11025, 22050, 44100, 48000}

ChannelCounts == {1, 2, 6}

PcmValues == <<0, 32767, -32768, -1, 1>>

Seeds == {0, 2}

(* n interleaved 16-bit samples *)
Pcm(n, seed) == [i \in 1..n |-> PcmValues[((i + seed) % Len(PcmValues)) + 1]]

(* what AudioSegment.from_file returns *)
Containers ==
    {[channels |-> c, frame_rate |-> r, data |-> Pcm(f * c, s), format |-> NoAttr] :
        c \in ChannelCounts, r \in Rates, f \in 0..MaxFrames, s \in Seeds}

(* the class of the error matters only when some library call fails *)
Envs == {e \in [exists : BOOLEAN, decodable : BOOLEAN, audio : Containers,
                faults : SUBSET Faults, errtype : LibErrorTypes] :
            (e.faults = {} /\ e.decodable) => e.errtype = "OSError"}

(* nothing has run yet *)
Fresh ==
    /\ console = <<>>
    /\ raised = NoExc
    /\ caught = <<>>
    /\ calls = [st \in Stages |-> 0]
    /\ disk = <<>>
    /\ anim = NoAnim
    /\ handed = [resample |-> NoArgs, save |-> NoArgs, render |-> NoArgs,
                 segment |-> NoSegment]

(* main(): file_path and the target rate are the script's constants; the
   file system and the libraries are the environment *)
Init ==
    /\ pc = "load"
    /\ env \in Envs
    /\ file_path = MainFilePath
    /\ target_sr = DefaultTargetSr
    /\ samples = <<>>
    /\ sample_rate = 0
    /\ original_audio = NoAudio
    /\ audio_output_path = <<>>
    /\ gif_output_path = <<>>
    /\ Fresh

(* the statements of main's try block, lines 166-186, and its handler *)
MainSteps ==
    \/ LoadAudio
    \/ ResampleAudio
    \/ GetOutputFilenames
    \/ SaveAudio
    \/ GifSetup
    \/ GifFrame
    \/ GifSaveFail
    \/ GifSave
    \/ PrintStatus
    \/ DisplayAudio
    \/ MainExcept

(* A run of main.  The segment load_audio returns has no format attribute,
   so save_audio never returns to main (SaveNeverReturns) and the steps of
   lines 178-186 stay disabled: main's runs are the runs of the steps up to
   save_audio and of the handler.  The later steps run in SpecGif and
   SpecTail. *)
Next ==
    \/ LoadAudio
    \/ ResampleAudio
    \/ GetOutputFilenames
    \/ SaveAudio
    \/ MainExcept

Spec == Init /\ [][Next]_vars

(* every statement of main, whether a run reaches it or not *)
SpecMainSteps == Init /\ [][MainSteps]_vars

-----------------------------------------------------------------------------
(* The functions on their own: each specification below starts at the call
   of one function with its arguments drawn from a bounded set *)

Libs(fs) == {e \in [exists : {TRUE}, decodable : {TRUE}, audio : {NoAudio},
                        faults : fs, errtype : LibErrorTypes] :
                e.faults = {} => e.errtype = "OSError"}

(* an original_audio argument that has a format attribute *)
MovAudio == [channels |-> 1, frame_rate |-> DefaultTargetSr, data |-> <<>>,
             format |-> "mov"]

(* a pydub segment as original_audio *)
PydubAudio == [MovAudio EXCEPT !.format = NoAttr]

(* resample_audio(samples, orig_sr, target_sr) *)
Amps == {Val(q) : q \in {-Unit, 1, Unit - Sub}}

ResampleRates == Rates \cup {7350}

InitResample ==
    /\ pc = "resample"
    /\ env \in Libs({{}, {"resample"}})
    /\ file_path = MainFilePath
    /\ target_sr \in ResampleRates
    /\ samples \in SeqsUpTo(Amps, MaxLen)
    /\ sample_rate \in ResampleRates
    /\ original_audio = MovAudio
    /\ audio_output_path = <<>>
    /\ gif_output_path = <<>>
    /\ Fresh

NextResample == ResampleAudio

SpecResample == InitResample /\ [][NextResample]_vars

(* get_output_filenames(input_path) *)
PathChars == {"/", ".", "g", "i", "f"}

PathPrefixes == {<<>>, Str_sample_data_slash, Str_sample_data_slash \o Str_v2}

Paths == {MainFilePath} \cup
         {pre \o t : pre \in PathPrefixes, t \in SeqsUpTo(PathChars, MaxTail)}

InitNames ==
    /\ pc = "names"
    /\ env \in Libs({{}})
    /\ file_path \in Paths
    /\ target_sr = DefaultTargetSr
    /\ samples = <<>>
    /\ sample_rate = DefaultTargetSr
    /\ original_audio = MovAudio
    /\ audio_output_path = <<>>
    /\ gif_output_path = <<>>
    /\ Fresh

NextNames == GetOutputFilenames

SpecNames == InitNames /\ [][NextNames]_vars

(* save_audio(samples, sample_rate, output_path, original_audio) *)
SaveAmps == {Unknown} \cup
            {Val(q) : q \in {-Unit, 1 - Unit, -Sub - 1, -1, 0, 1, Sub + 1,
                             Unit - Sub, Unit - 1, Unit}}

InitSave ==
    /\ pc = "save"
    /\ env \in Libs({{}, {"export"}})
    /\ file_path = MainFilePath
    /\ target_sr = DefaultTargetSr
    /\ samples \in SeqsUpTo(SaveAmps, MaxLen)
    /\ sample_rate \in Rates
    /\ original_audio \in {MovAudio, PydubAudio}
    /\ audio_output_path = get_output_filenames(MainFilePath)[1]
    /\ gif_output_path = get_output_filenames(MainFilePath)[2]
    /\ Fresh

NextSave == SaveAudio

SpecSave == InitSave /\ [][NextSave]_vars

(* generate_waveform_gif(samples, sample_rate, output_path) *)
GifRates == {1, 19, 20, 40, 50, DefaultTargetSr}

GifLens == (0..MaxGifLen) \cup {GifFrames, 2 * GifFrames + 1}

InitGif ==
    /\ pc = "render"
    /\ env \in Libs({{}, {"anim_save"}})
    /\ file_path = MainFilePath
    /\ target_sr = DefaultTargetSr
    /\ \E n \in GifLens : samples = normalize(Pcm(n, 0))
    /\ sample_rate \in GifRates
    /\ original_audio = MovAudio
    /\ audio_output_path = get_output_filenames(MainFilePath)[1]
    /\ gif_output_path = get_output_filenames(MainFilePath)[2]
    /\ Fresh

NextGif == GifSetup \/ GifFrame \/ GifSaveFail \/ GifSave

SpecGif == InitGif /\ [][NextGif]_vars

(* main from line 178 on, as it would run had save_audio returned *)
InitTail ==
    /\ pc = "render"
    /\ env \in Libs(SUBSET {"anim_save", "display"})
    /\ file_path = MainFilePath
    /\ target_sr = DefaultTargetSr
    /\ \E n \in 0..MaxLen : samples = normalize(Pcm(n, 0))
    /\ sample_rate = DefaultTargetSr
    /\ original_audio = MovAudio
    /\ audio_output_path = get_output_filenames(MainFilePath)[1]
    /\ gif_output_path = get_output_filenames(MainFilePath)[2]
    /\ Fresh

NextTail ==
    \/ GifSetup
    \/ GifFrame
    \/ GifSaveFail
    \/ GifSave
    \/ PrintStatus
    \/ DisplayAudio
    \/ MainExcept

SpecTail == InitTail /\ [][NextTail]_vars

-----------------------------------------------------------------------------
(* Properties *)

Kinds(k) == {i \in 1..Len(console) : console[i].kind = k}

StatusPrinted == Kinds("loaded") \cup Kinds("audio_saved") \cup Kinds("gif_saved") # {}

ErrorPrinted == Kinds("error") # {}

OutPrefix == Str_sample_data_slash \o Str_v2

(* in no run of main does control pass line 175 *)
SaveNeverReturns ==
    /\ pc \in {"load", "resample", "names", "save", "except", "done", "uncaught"}
    /\ disk = <<>>
    /\ ~StatusPrinted

(* C1: when file_path does not exist, load_audio raises FileNotFoundError,
   never the decode error ValueError, and AudioSegment.from_file has not
   been attempted. *)
C1_MissingFileBeforeDecode ==
    (calls["load"] >= 1 /\ ~env.exists) =>
        /\ raised.stage = "load"
        /\ raised.type = "FileNotFoundError"
        /\ raised.type # "ValueError"
        /\ calls["decode"] = 0

C1_Witness ==
    /\ ~env.exists
    /\ calls["load"] = 1
    /\ pc = "except"

(* C2 as stated: an exception raised by a stage reaches main's handler as
   raised, is caught there exactly once and logged as the one error line; no
   stage and no handler runs twice; the run never ends with an uncaught
   exception and stops only when main has returned. *)
C2_AlwaysCaught ==
    /\ pc # "uncaught"
    /\ \A st \in Stages : calls[st] <= 1
    /\ pc = "except" => raised # NoExc /\ caught = <<>> /\ ENABLED MainExcept
    /\ raised = NoExc => caught = <<>> /\ ~ErrorPrinted
    /\ (pc = "done" /\ raised # NoExc) =>
          /\ caught = <<raised>>
          /\ calls["handler"] = 1
          /\ Cardinality(Kinds("error")) = 1
          /\ console[Len(console)] = Line("error", 0, 0, <<>>, raised)
    /\ (pc = "done" /\ raised = NoExc) => calls["handler"] = 0
    /\ ~(ENABLED Next) => pc = "done"

(* C2 amended: an exception raised by a stage reaches main's except clause
   as raised; when it is an instance of Exception it is caught there exactly
   once, logged as the one error line, and main returns; when it is not
   (KeyboardInterrupt), nothing is caught or logged and it leaves main; no
   stage and no handler runs twice, and a run stops only in one of these two
   ways. *)
C2_CaughtOnceAtTop ==
    /\ \A st \in Stages : calls[st] <= 1
    /\ pc = "except" => raised # NoExc /\ caught = <<>> /\ ENABLED MainExcept
    /\ raised = NoExc => caught = <<>> /\ ~ErrorPrinted
    /\ (pc = "done" /\ raised # NoExc) =>
          /\ IsException(raised)
          /\ caught = <<raised>>
          /\ calls["handler"] = 1
          /\ Cardinality(Kinds("error")) = 1
          /\ console[Len(console)] = Line("error", 0, 0, <<>>, raised)
    /\ (pc = "done" /\ raised = NoExc) => calls["handler"] = 0
    /\ pc = "uncaught" =>
          /\ raised # NoExc
          /\ ~IsException(raised)
          /\ caught = <<>>
          /\ ~ErrorPrinted
    /\ (raised # NoExc /\ IsException(raised)) => pc \in {"except", "done"}
    /\ (raised # NoExc /\ ~IsException(raised)) => pc \in {"except", "uncaught"}
    /\ ~(ENABLED Next) => pc \in {"done", "uncaught"}

C2_Witness ==
    /\ pc = "done"
    /\ raised.stage = "save"
    /\ raised.type = "AttributeError"
    /\ caught = <<raised>>

(* C3: resample_audio returns the input buffer unchanged, with orig_sr, when
   target_sr = orig_sr, and otherwise a converted buffer (its length within
   one sample of len * target_sr / orig_sr) with target_sr; the returned
   rate is target_sr in both cases. *)
C3_ResampleContract ==
    (calls["resample"] = 1 /\ pc = "names") =>
        LET inp == handed.resample
        IN  /\ sample_rate = target_sr
            /\ inp.rate = target_sr =>
                  samples = inp.samples /\ sample_rate = inp.rate
            /\ inp.rate # target_sr =>
                  /\ samples \in librosa_resample(inp.samples, inp.rate, target_sr)
                  /\ Abs(Len(samples) * inp.rate - Len(inp.samples) * target_sr)
                        <= inp.rate

C3_Witness ==
    /\ calls["resample"] = 1
    /\ pc = "names"
    /\ handed.resample.rate # target_sr
    /\ Len(handed.resample.samples) = MaxLen
    /\ Len(samples) # Len(handed.resample.samples)
    /\ sample_rate = target_sr

(* C4: after load and after resample, buffer length and rate give the source
   duration within one sample, and the Writer and the Visualizer are handed
   the current pair (samples, sample_rate). *)
C4_LengthRateConsistent ==
    /\ pc = "resample" =>
          /\ Len(samples) = frame_count(env.audio)
          /\ sample_rate = env.audio.frame_rate
    /\ pc \in {"names", "save", "render", "frames", "print", "display"} =>
          Abs(Len(samples) * env.audio.frame_rate
                - frame_count(env.audio) * sample_rate) <= env.audio.frame_rate
    /\ handed.save # NoArgs =>
          handed.save = [samples |-> samples, rate |-> sample_rate]
    /\ handed.render # NoArgs =>
          handed.render = [samples |-> samples, rate |-> sample_rate]

(* C5: for every buffer length and positive rate the animation drives update
   for exactly frames 0..99, every slice is clamped to the buffer end, and,
   unless the writer fails, the call does not end before all 100 frames
   were drawn and handed to the writer. *)
C5_HundredClampedFrames ==
    /\ pc = "frames" =>
          /\ anim.frame \in 0..(GifFrames - 1)
          /\ anim.grabbed <= GifFrames
          /\ anim.end_idx <= Len(samples)
          /\ anim.slice = Slice(samples, anim.start_idx, anim.end_idx)
          /\ Len(anim.slice) = MaxOf(0, anim.end_idx - anim.start_idx)
    /\ (calls["render"] = 1 /\ pc # "frames" /\ "anim_save" \notin env.faults) =>
          /\ anim.grabbed = GifFrames
          /\ anim.frame = GifFrames - 1

(* C6: get_output_filenames returns sample_data/v2_<basename><ext> and
   sample_data/v2_<basename>.gif whatever the directory of the input; the
   audio name is the input's last path component behind the tag, and
   sample_data/mmmm.mov gives sample_data/v2_mmmm.mov and
   sample_data/v2_mmmm.gif. *)
C6_OutputNames ==
    (calls["names"] = 1) =>
        /\ audio_output_path = OutPrefix \o basename(file_path)
        /\ gif_output_path =
              OutPrefix \o splitext(basename(file_path))[1] \o Str_dot_gif
        /\ rfind(audio_output_path, "/") = Len(Str_sample_data_slash)
        /\ rfind(gif_output_path, "/") = Len(Str_sample_data_slash)
        /\ file_path = MainFilePath =>
              /\ audio_output_path = Str_sample_data_slash \o
                    <<"v","2","_","m","m","m","m",".","m","o","v">>
              /\ gif_output_path = Str_sample_data_slash \o
                    <<"v","2","_","m","m","m","m",".","g","i","f">>

C6_Witness ==
    /\ calls["names"] = 1
    /\ file_path = <<"g", "/", "f", ".", "i">>
    /\ audio_output_path = OutPrefix \o <<"f", ".", "i">>

(* C7: when load_audio succeeds the buffer holds exactly one sample per
   source frame and the container handed on is single-channel. *)
C7_LoadedMono ==
    pc = "resample" =>
        /\ Len(samples) = frame_count(env.audio)
        /\ original_audio.channels = 1

(* C8: the console shows the status lines or a single error line, never
   both: status lines only in a run in which no stage raised, the error line
   only in a run in which no status line was printed, and a run that ends
   with a caught exception shows the error line and nothing else. *)
C8_StatusOrError ==
    /\ ~(StatusPrinted /\ ErrorPrinted)
    /\ StatusPrinted => raised = NoExc
    /\ Cardinality(Kinds("error")) <= 1
    /\ (pc = "done" /\ raised # NoExc) =>
          console = <<Line("error", 0, 0, <<>>, raised)>>

C8_Witness ==
    /\ pc = "done"
    /\ raised.stage = "resample"
    /\ console = <<Line("error", 0, 0, <<>>, raised)>>

(* C9: for amplitudes in [-1.0, 1.0] the written 16-bit value keeps sign and
   magnitude (no wrap), and a sample that came from a 16-bit integer is
   written back as that integer. *)
C9_DenormalizeInRange ==
    (calls["save"] = 1) =>
        LET out == handed.segment.data
            inp == handed.save.samples
        IN  /\ Len(out) = Len(inp)
            /\ \A i \in 1..Len(inp) :
                  (inp[i].known /\ inp[i].q >= -Unit /\ inp[i].q <= Unit) =>
                      /\ out[i].known
                      /\ out[i].q >= Int16Min /\ out[i].q <= Int16Max
                      /\ inp[i].q > 0 => out[i].q >= 0
                      /\ inp[i].q < 0 => out[i].q <= 0
                      /\ Abs(out[i].q * Sub - inp[i].q) < Sub
                      /\ inp[i].q % Sub = 0 => out[i].q * Sub = inp[i].q

(* C10 as stated: the audio path, the GIF path and the input path are
   pairwise different for every input path. *)
C10_NoClobber ==
    (calls["names"] = 1) =>
        /\ audio_output_path # gif_output_path
        /\ audio_output_path # file_path
        /\ gif_output_path # file_path

(* C10 amended: neither output path equals the input path, and the two
   output paths are equal exactly when the input's extension is ".gif". *)
C10_NoClobberUnlessGif ==
    (calls["names"] = 1) =>
        /\ (audio_output_path = gif_output_path)
              <=> (splitext(file_path)[2] = Str_dot_gif)
        /\ audio_output_path # file_path
        /\ gif_output_path # file_path

C10_Witness ==
    /\ calls["names"] = 1
    /\ file_path = OutPrefix \o <<"g", ".", "f">>
    /\ audio_output_path = OutPrefix \o Str_v2 \o <<"g", ".", "f">>
    /\ audio_output_path # gif_output_path

=============================================================================
